---- MODULE Spec2Model ----
(***************************************************************************)
(* Model of the ntfy -> Discord bridge: the supervisor loop of             *)
(* app/task_manager.py (manage_listeners), the per-rule listener of        *)
(* app/ntfy.py (listen_to_ntfy under backoff.on_exception, and the decode  *)
(* loop _process_ntfy_stream), the dispatcher of app/discord.py            *)
(* (post_to_discord) and the rule store of app/core/database.py.           *)
(***************************************************************************)
EXTENDS Integers, Sequences, FiniteSets, TLC

(* ------------------------------ bounds -------------------------------- *)
\* rule ids
MaxRules == 3
\* rows add_mapping inserts into a table that starts empty
MaxAdds == 2
\* listener tasks ever created by asyncio.create_task
MaxTasks == 3
\* tries of the backoff loop within one invocation of listen_to_ntfy
MaxTries == 2
\* lines received on one stream (StreamSpec)
MaxLen == 3

(* ------------------------- program constants -------------------------- *)
HTTP_BAD_REQUEST == 400
HTTP_INTERNAL_SERVER_ERROR == 500
\* max_time of backoff.on_exception, in seconds
MAX_TIME == 300

Rules == 1..MaxRules
Handles == 1..MaxTasks
\* "no task": the value of running_tasks.get(id) for an absent key
NoHandle == 0

VARIABLES
    db,             \* ids of the rows of table mappings
    next_id,        \* next id the AUTOINCREMENT key issues
    running_tasks,  \* task_manager.running_tasks: rule id -> task handle
    tasks,          \* every asyncio.Task created so far: handle -> listener state
    next_task,      \* next fresh task handle
    pc,             \* where manage_listeners is suspended
    stale,          \* rest of the iteration over stale_task_ids
    awaiting,       \* the task _stop_deleted_listeners awaits
    snapshot,       \* current_mapping_ids of the current tick
    fetched,        \* how far list_mappings is in the current tick
    rows,           \* the rows list_mappings' SELECT read, until it returns
    lines,          \* StreamSpec: the lines response.aiter_lines() yields
    idx,            \* StreamSpec: number of lines read so far
    dispatched,     \* StreamSpec: records handed to post_to_discord, in order
    posts,          \* StreamSpec: outcome of each post to the webhook
    webhook_url,    \* StreamSpec: what httpx makes of the webhook_url argument
    sst             \* StreamSpec: where _process_ntfy_stream is

supvars == <<running_tasks, pc, stale, awaiting, snapshot, fetched, rows>>
mainvars == <<db, next_id, tasks, next_task, supvars>>
streamvars == <<lines, idx, dispatched, posts, webhook_url, sst>>
vars == <<mainvars, streamvars>>

(* --------------------- lines of the ntfy stream ----------------------- *)
\* Representative lines of the newline-delimited stream, as received.
L_EMPTY == ""
L_SPACE == "   "
L_BAD == "not json"
L_OPEN == "{\"event\":\"open\"}"
L_MSG == "{\"event\":\"message\",\"title\":\"T\",\"message\":\"M\"}"
L_MSG_BARE == "{\"event\":\"message\"}"
L_MSG_INT_TITLE == "{\"event\":\"message\",\"title\":5}"
L_NUM == "5"
L_MSG_NULL_TITLE == "{\"event\":\"message\",\"title\":null}"
L_MSG_BAD_TAGS == "{\"event\":\"message\",\"title\":\"T\",\"tags\":[1]}"
L_MSG_INT_TAGS == "{\"event\":\"message\",\"title\":\"T\",\"tags\":5}"
L_MSG_TIME == "{\"event\":\"message\",\"title\":\"T\",\"time\":1700000000}"
L_MSG_BAD_TIME == "{\"event\":\"message\",\"title\":\"T\",\"time\":\"abc\"}"
L_MSG_BIG_TIME == "{\"event\":\"message\",\"title\":\"T\",\"time\":1e20}"
L_MSG_SURROGATE == "{\"event\":\"message\",\"title\":\"\\ud83d\"}"
L_MSG_NAN == "{\"event\":\"message\",\"title\":\"T\",\"message\":NaN}"
L_MSG_INF == "{\"event\":\"message\",\"title\":\"T\",\"message\":Infinity}"
L_MSG_ZERO_TIME == "{\"event\":\"message\",\"title\":\"T\",\"time\":0}"
L_MSG_LIST_NAN == "{\"event\":\"message\",\"title\":\"T\",\"message\":[NaN]}"
L_MSG_NO_TAGS == "{\"event\":\"message\",\"title\":\"T\",\"tags\":[]}"
LineAlphabet == {L_EMPTY, L_SPACE, L_BAD, L_OPEN, L_MSG, L_MSG_BARE,
                 L_MSG_INT_TITLE, L_NUM, L_MSG_NULL_TITLE, L_MSG_BAD_TAGS,
                 L_MSG_INT_TAGS, L_MSG_TIME, L_MSG_BAD_TIME, L_MSG_BIG_TIME,
                 L_MSG_SURROGATE, L_MSG_NAN, L_MSG_INF, L_MSG_ZERO_TIME,
                 L_MSG_LIST_NAN, L_MSG_NO_TAGS}

\* The value None: dict.get(key) of a missing key, and a JSON null
None == "<None>"
\* A string holding a lone surrogate, which utf-8 cannot encode
LoneSurrogate == "<\\ud83d>"
\* A number json.loads reads is kept by what the code can tell of it: "zero"
\* (0, -0, 0.0), "in_range" (any other finite number that, taken as seconds
\* since the epoch, falls in the years 1 to 9999), "out_of_range" (any other
\* finite number), "nan" (NaN) and "inf" (Infinity, -Infinity and a literal
\* beyond the range of a float, such as 1e400).
Numbers == {"zero", "in_range", "out_of_range", "nan", "inf"}
\* The floats that are no finite number
NonFinite == {"nan", "inf"}
\* The finite numbers datetime.fromtimestamp has no date for (OverflowError
\* beyond the platform's time_t, ValueError beyond the years 1 to 9999)
OutOfRange == {"out_of_range"}
\* A list or a dict is kept as "empty", as "nonfinite" (a non-finite float is
\* in it, at any depth), as "surrogate" (a string with a lone surrogate is in
\* it, at any depth) or as "plain" (anything else).
Containers == {"empty", "plain", "nonfinite", "surrogate"}

\* not line.strip()
IsBlank(line) == line \in {L_EMPTY, L_SPACE}

\* A decoded object without the fields post_to_discord reads: keys is the set
\* of keys the object has, and each field carries the Python type and the
\* value dict.get(key) gives (None for a missing key): a string by its
\* content, a bool as "true" or "false", a number as one of Numbers, a list or
\* a dict as one of Containers. tags is the sequence of the types of the
\* elements that iterating over the value of tags gives.
Record == [type |-> "dict", keys |-> {"event"}, event |-> None,
           title |-> None, title_type |-> "NoneType",
           message |-> None, message_type |-> "NoneType",
           tags |-> <<>>, tags_value |-> None, tags_type |-> "NoneType",
           time |-> None, time_type |-> "NoneType",
           topic |-> None, topic_type |-> "NoneType"]

\* A message record with the title "T"
Titled == [Record EXCEPT !.event = "message", !.keys = {"event", "title"},
                         !.title = "T", !.title_type = "str"]

\* json.loads(line): the decoded value, or the JSONDecodeError it raises.
json_loads(line) ==
    CASE line = L_OPEN -> [Record EXCEPT !.event = "open"]
      [] line = L_MSG ->
           [Titled EXCEPT !.keys = {"event", "title", "message"},
                          !.message = "M", !.message_type = "str"]
      [] line = L_MSG_BARE -> [Record EXCEPT !.event = "message"]
      [] line = L_MSG_INT_TITLE ->
           [Titled EXCEPT !.title = "in_range", !.title_type = "int"]
      [] line = L_MSG_NULL_TITLE ->
           [Titled EXCEPT !.title = None, !.title_type = "NoneType"]
      [] line = L_MSG_BAD_TAGS ->
           [Titled EXCEPT !.keys = {"event", "title", "tags"},
                          !.tags = <<"int">>, !.tags_value = "plain",
                          !.tags_type = "list"]
      [] line = L_MSG_INT_TAGS ->
           [Titled EXCEPT !.keys = {"event", "title", "tags"},
                          !.tags_value = "in_range", !.tags_type = "int"]
      [] line = L_MSG_TIME ->
           [Titled EXCEPT !.keys = {"event", "title", "time"},
                          !.time = "in_range", !.time_type = "int"]
      [] line = L_MSG_BAD_TIME ->
           [Titled EXCEPT !.keys = {"event", "title", "time"},
                          !.time = "abc", !.time_type = "str"]
      [] line = L_MSG_BIG_TIME ->
           [Titled EXCEPT !.keys = {"event", "title", "time"},
                          !.time = "out_of_range", !.time_type = "float"]
      [] line = L_MSG_SURROGATE -> [Titled EXCEPT !.title = LoneSurrogate]
      [] line = L_MSG_NAN ->
           [Titled EXCEPT !.keys = {"event", "title", "message"},
                          !.message = "nan", !.message_type = "float"]
      [] line = L_MSG_INF ->
           [Titled EXCEPT !.keys = {"event", "title", "message"},
                          !.message = "inf", !.message_type = "float"]
      [] line = L_MSG_ZERO_TIME ->
           [Titled EXCEPT !.keys = {"event", "title", "time"},
                          !.time = "zero", !.time_type = "int"]
      [] line = L_MSG_LIST_NAN ->
           [Titled EXCEPT !.keys = {"event", "title", "message"},
                          !.message = "nonfinite", !.message_type = "list"]
      [] line = L_MSG_NO_TAGS ->
           [Titled EXCEPT !.keys = {"event", "title", "tags"},
                          !.tags_value = "empty", !.tags_type = "list"]
      [] line = L_NUM -> [Record EXCEPT !.type = "int", !.keys = {}]
      [] OTHER -> [Record EXCEPT !.type = "JSONDecodeError", !.keys = {}]

\* bool(value) of a value of Python type type
Truthy(type, value) ==
    CASE type = "NoneType" -> FALSE
      [] type = "str" -> value # ""
      [] type = "bool" -> value = "true"
      [] type \in {"int", "float"} -> value # "zero"
      [] OTHER -> value # "empty"

\* datetime.fromtimestamp(value, tz=UTC) raises: the value is no number
\* (TypeError), no finite one (ValueError, OverflowError), or out of range.
fromtimestamp_raises(type, value) ==
    \/ type \notin {"int", "float", "bool"}
    \/ type \in {"int", "float"} /\ value \in NonFinite \cup OutOfRange

\* json.dumps(allow_nan=False) followed by encode("utf-8") refuses the
\* value: a non-finite float (ValueError) or a string with a lone surrogate
\* (UnicodeEncodeError), by itself or inside a list or a dict.
Unencodable(type, value) ==
    \/ type = "float" /\ value \in NonFinite
    \/ type = "str" /\ value = LoneSurrogate
    \/ type \in {"list", "dict"} /\ value \in {"nonfinite", "surrogate"}

\* post_to_discord before session.post: an exception leaves it when tags is
\* truthy and cannot be iterated over or has an element that is no string
\* (tag.lower()), when the key title is there with a value that is no string,
\* null included (the default is only taken for a missing key, and
\* title.startswith needs a string), or when time is truthy and
\* datetime.fromtimestamp refuses it.
PayloadRaises(data) ==
    \/ /\ Truthy(data.tags_type, data.tags_value)
       /\ \/ data.tags_type \in {"int", "float", "bool"}
          \/ \E i \in 1..Len(data.tags) : data.tags[i] # "str"
    \/ "title" \in data.keys /\ data.title_type # "str"
    \/ /\ Truthy(data.time_type, data.time)
       /\ fromtimestamp_raises(data.time_type, data.time)

\* session.post(webhook_url, json=payload) raises while it encodes the
\* payload of discord.post_to_discord, before anything is sent: the title (a
\* string there), the message as it is, and the topic inside the footer text.
EncodeRaises(data) ==
    \/ data.title_type = "str" /\ data.title = LoneSurrogate
    \/ Unencodable(data.message_type, data.message)
    \/ data.topic_type = "str" /\ data.topic = LoneSurrogate

\* What httpx makes of the webhook URL of the row, which the CLI stores as
\* given: a URL it posts to ("ok"), one it refuses while building the request
\* (httpx.InvalidURL: a bad port, a control character), or one without
\* http(s) scheme, which the transport refuses at once with
\* UnsupportedProtocol, a RequestError.
Webhooks == {"ok", "InvalidURL", "UnsupportedProtocol"}

\* One iteration of the decode loop on a received line, up to its first
\* suspension point: "continue" (next line), "dispatch" (post_to_discord
\* awaits the webhook), "dispatch_raises" (post_to_discord raised an exception
\* that is no RequestError before posting), "dispatch_fails" (session.post
\* raised a RequestError before posting) or "raise" (an exception other than
\* JSONDecodeError left the try block before any dispatch).
ProcessLine(line, webhook) ==
    IF IsBlank(line) THEN "continue"
    ELSE LET data == json_loads(line) IN
         IF data.type = "JSONDecodeError" THEN "continue"
         ELSE IF data.type # "dict" THEN "raise"
         ELSE IF data.event # "message" THEN "continue"
         ELSE IF PayloadRaises(data) THEN "dispatch_raises"
         ELSE IF webhook = "InvalidURL" THEN "dispatch_raises"
         ELSE IF EncodeRaises(data) THEN "dispatch_raises"
         ELSE IF webhook = "UnsupportedProtocol" THEN "dispatch_fails"
         ELSE "dispatch"

\* How session.post and raise_for_status end once the request is on its way:
\* a 2xx status, a non-2xx status (HTTPStatusError), a transport failure
\* (httpx.RequestError), or an exception that is neither.
PostOutcomes == {"2xx", "HTTPStatusError", "RequestError", "Exception"}

\* post_to_discord from session.post on: what leaves the call.
\* HTTPStatusError is logged and swallowed, RequestError is logged and
\* raised, and no clause catches anything else.
post_to_discord(outcome) ==
    CASE outcome = "RequestError" -> "RequestError"
      [] outcome = "Exception" -> "Exception"
      [] OTHER -> "returned"

(* ------------------- the listener: listen_to_ntfy --------------------- *)
\* Statuses the ntfy server answers the streaming GET with.
Statuses == {200, 400, 404, 500}

\* response.raise_for_status() returns without raising
IsSuccess(s) == 200 <= s /\ s <= 299

\* Variant: the lower end of the client-error range is excluded.
is_client_error_Above(s) == HTTP_BAD_REQUEST < s /\ s < HTTP_INTERNAL_SERVER_ERROR

\* is_client_error of the HTTPStatusError handler
is_client_error(s) == HTTP_BAD_REQUEST <= s /\ s < HTTP_INTERNAL_SERVER_ERROR

\* The exceptions backoff.on_exception catches: (RequestError, ConnectError).
\* HTTPStatusError derives from HTTPError, not from RequestError.
BackoffCatches(exc) == exc \in {"RequestError", "ConnectError"}

\* backoff.expo with base 2 and factor 1: the n-th value it yields
expo(n) == 2 ^ n

Min(a, b) == IF a <= b THEN a ELSE b

\* Times since the start of the invocation are only compared with MAX_TIME,
\* so they are kept up to the first value above it.
Cap(x) == Min(x, MAX_TIME + 1)

\* Time a try takes from its start to the exception that ends it: any time;
\* the model enumerates none at all, the ceiling, and more than the ceiling.
TryDurations == {0, MAX_TIME, MAX_TIME + 1}

\* A handle no task was created for yet.
Unused == [rule |-> 0, st |-> "none", tries |-> 0, wait_n |-> 0,
           elapsed |-> 0, wake |-> 0, value |-> 0, status |-> 0,
           cancel |-> FALSE, out |-> "none"]

\* asyncio.create_task(listen_to_ntfy(mapping)): the retry loop of the
\* decorator at its first try (tries = 1, start = now, a fresh wait
\* generator), about to open the stream.
create_task(r) == [Unused EXCEPT !.rule = r, !.st = "connecting", !.tries = 1]

Done(h) == tasks[h].st = "done"
Live(h) == tasks[h].st \notin {"none", "done"}
\* The task can take a step of its own code: it is not finished and no
\* CancelledError is pending for it.
Runs(h) == Live(h) /\ ~tasks[h].cancel

\* The coroutine ends: with a return ("returned") or with the exception that
\* left it. Its frame (the retry loop's locals) is gone.
Finished(t, outcome) ==
    [t EXCEPT !.st = "done", !.out = outcome, !.tries = 0, !.wait_n = 0,
              !.elapsed = 0, !.wake = 0, !.value = 0]

\* Variant: the retry loop has no max_time.
on_exception_NoCeiling(t, exc, d) ==
    IF exc \notin {"RequestError", "ConnectError"}
    THEN [t EXCEPT !.st = "done", !.out = exc, !.tries = 0, !.wait_n = 0,
                   !.elapsed = 0, !.wake = 0, !.value = 0]
    ELSE [t EXCEPT !.st = "backoff", !.wait_n = @ + 1,
                   !.value = 2 ^ t.wait_n,
                   !.wake = IF t.elapsed + d <= MAX_TIME + 1 THEN t.elapsed + d
                            ELSE MAX_TIME + 1]

\* An exception exc left the body of listen_to_ntfy, d seconds after the try
\* began. The retry loop of backoff.on_exception: an exception it does not
\* catch ends the task; one it catches ends the task when the elapsed time
\* taken at the start of the try has reached max_time, and otherwise the next
\* value of the wait generator is drawn and the loop sleeps
\* min(jitter(value), max_time - elapsed) seconds, the jitter being
\* random.uniform(0, value). The sleep is taken at the jitter's lower end:
\* wake, the time the sleep ends, is the time of the failure.
on_exception(t, exc, d) ==
    IF ~BackoffCatches(exc) THEN Finished(t, exc)
    ELSE IF t.elapsed >= MAX_TIME THEN Finished(t, exc)
    ELSE [t EXCEPT !.st = "backoff", !.wait_n = @ + 1,
                   !.value = expo(t.wait_n), !.wake = Cap(t.elapsed + d)]

\* A listener step changes nothing but its own task.
ListenerFrame == UNCHANGED <<db, next_id, next_task, supvars, streamvars>>

\* The streaming GET is answered with status s.
\* 2xx: the decode loop starts. Otherwise raise_for_status raises
\* HTTPStatusError: a client error returns, any other status re-raises.
Respond(h, s) ==
    /\ Runs(h) /\ tasks[h].st = "connecting"
    /\ tasks' = [tasks EXCEPT ![h] =
         IF IsSuccess(s)
         THEN [@ EXCEPT !.st = "streaming", !.status = s]
         ELSE IF is_client_error(s)
         THEN Finished([@ EXCEPT !.status = s], "returned")
         ELSE on_exception([@ EXCEPT !.status = s], "HTTPStatusError", 0)]
    /\ ListenerFrame

\* Connecting fails with a transport error (httpx.RequestError): logged and
\* re-raised to the retry loop.
ConnectFails(h, d) ==
    /\ Runs(h) /\ tasks[h].st = "connecting"
    /\ tasks' = [tasks EXCEPT ![h] = on_exception(@, "ConnectError", d)]
    /\ ListenerFrame

\* Building the two clients raises (httpx.AsyncClient(headers=...) on a
\* header value that is not ASCII, or the TLS context cannot be set up): the
\* exception is raised outside the try, no handler of listen_to_ntfy sees it,
\* and it reaches the retry loop without any sleep.
ClientRaises(h) ==
    /\ Runs(h) /\ tasks[h].st = "connecting"
    /\ tasks' = [tasks EXCEPT ![h] = on_exception(@, "Exception", 0)]
    /\ ListenerFrame

\* Opening the stream inside the try raises anything else (except Exception):
\* logged, then asyncio.sleep(5).
Unexpected(h) ==
    /\ Runs(h) /\ tasks[h].st = "connecting"
    /\ tasks' = [tasks EXCEPT ![h].st = "sleep5"]
    /\ ListenerFrame

\* The fixed delay is over: the exception is re-raised to the retry loop.
Sleep5Over(h) ==
    /\ Runs(h) /\ tasks[h].st = "sleep5"
    /\ tasks' = [tasks EXCEPT ![h] = on_exception(@, "Exception", 0)]
    /\ ListenerFrame

\* response.aiter_lines() yields a line; the decode loop handles it up to
\* its next suspension point, webhook being what httpx makes of the row's
\* webhook URL. A RequestError session.post raises at once goes to the retry
\* loop, d seconds after the try began; any other exception to except
\* Exception, which sleeps.
ReadLine(h, line, webhook, d) ==
    /\ Runs(h) /\ tasks[h].st = "streaming"
    /\ LET go == ProcessLine(line, webhook) IN
       tasks' = [tasks EXCEPT ![h] =
         CASE go = "continue" -> @
           [] go = "dispatch" -> [@ EXCEPT !.st = "dispatching"]
           [] go = "dispatch_fails" -> on_exception(@, "RequestError", d)
           [] OTHER -> [@ EXCEPT !.st = "sleep5"]]
    /\ ListenerFrame

\* Variant: the listeners share one client for the webhook, and a transport
\* failure of a post fails the post of every listener that is dispatching.
PostReturns_Shared(h, o, d) ==
    /\ tasks[h].st = "dispatching" /\ ~tasks[h].cancel
    /\ tasks' = [x \in 1..MaxTasks |->
         IF o # "RequestError"
         THEN IF x = h
              THEN [tasks[x] EXCEPT !.st = IF o = "Exception" THEN "sleep5"
                                           ELSE "streaming"]
              ELSE tasks[x]
         ELSE IF tasks[x].st = "dispatching" /\ ~tasks[x].cancel
              THEN on_exception(tasks[x], "RequestError", d)
              ELSE tasks[x]]
    /\ UNCHANGED <<db, next_id, next_task, supvars, streamvars>>

\* session.post to the webhook ends with outcome o: post_to_discord returns
\* and the decode loop goes on, or it raises: a RequestError is re-raised to
\* the retry loop by except httpx.RequestError, anything else is logged by
\* except Exception, which then sleeps.
PostReturns(h, o, d) ==
    /\ Runs(h) /\ tasks[h].st = "dispatching"
    /\ tasks' = [tasks EXCEPT ![h] =
         CASE post_to_discord(o) = "returned" -> [@ EXCEPT !.st = "streaming"]
           [] post_to_discord(o) = "RequestError" ->
                on_exception(@, "RequestError", d)
           [] OTHER -> [@ EXCEPT !.st = "sleep5"]]
    /\ ListenerFrame

\* Variant: a listener that returns takes its own entry out of the registry.
EndOfStream_Unregisters(h) ==
    /\ tasks[h].st = "streaming" /\ ~tasks[h].cancel
    /\ tasks' = [tasks EXCEPT ![h] =
         [@ EXCEPT !.st = "done", !.out = "returned", !.tries = 0, !.wait_n = 0,
                   !.elapsed = 0, !.wake = 0, !.value = 0]]
    /\ running_tasks' = [r \in 1..MaxRules |->
                           IF running_tasks[r] = h THEN 0 ELSE running_tasks[r]]
    /\ UNCHANGED <<db, next_id, next_task, pc, stale, awaiting, snapshot,
                   fetched, rows, streamvars>>

\* The line iterator ends: _process_ntfy_stream and listen_to_ntfy return.
EndOfStream(h) ==
    /\ Runs(h) /\ tasks[h].st = "streaming"
    /\ tasks' = [tasks EXCEPT ![h] = Finished(@, "returned")]
    /\ ListenerFrame

\* Reading the stream fails with a transport error (httpx.RequestError).
ReadFails(h, d) ==
    /\ Runs(h) /\ tasks[h].st = "streaming"
    /\ tasks' = [tasks EXCEPT ![h] = on_exception(@, "RequestError", d)]
    /\ ListenerFrame

\* How a try of listen_to_ntfy runs up to its first suspension point: it
\* suspends opening the stream, or it raises at once: building the clients
\* raises ("ClientError"), httpx refuses the ntfy URL while building the
\* request ("InvalidURL"), or the URL has no http(s) scheme and the
\* transport refuses it ("UnsupportedProtocol", a RequestError). The CLI
\* stores server and topic as given.
TryStarts == {"suspends", "ClientError", "InvalidURL", "UnsupportedProtocol"}

\* asyncio.sleep(seconds) of the retry loop is over: the next try begins
\* (tries += 1, elapsed = now - start) and runs up to its first suspension
\* point. Tries are enumerated up to MaxTries.
Retry(h, start) ==
    /\ Runs(h) /\ tasks[h].st = "backoff"
    /\ tasks[h].tries < MaxTries
    /\ LET t == [tasks[h] EXCEPT !.st = "connecting", !.tries = @ + 1,
                                 !.elapsed = tasks[h].wake,
                                 !.wake = 0, !.value = 0, !.status = 0]
       IN tasks' = [tasks EXCEPT ![h] =
            CASE start = "suspends" -> t
              [] start = "ClientError" -> on_exception(t, "Exception", 0)
              [] start = "InvalidURL" -> [t EXCEPT !.st = "sleep5"]
              [] OTHER -> on_exception(t, "RequestError", 0)]
    /\ ListenerFrame

\* Variant: a task blocked on the read of the stream does not see the
\* cancellation.
Cancelled_NotWhileReading(h) ==
    /\ tasks[h].st \notin {"none", "done", "streaming"} /\ tasks[h].cancel
    /\ tasks' = [tasks EXCEPT ![h] =
         [@ EXCEPT !.st = "done", !.out = "CancelledError", !.tries = 0,
                   !.wait_n = 0, !.elapsed = 0, !.wake = 0, !.value = 0]]
    /\ ListenerFrame

\* task.cancel() was called: CancelledError is thrown into the coroutine at
\* the await it is suspended on. No handler of listen_to_ntfy nor the retry
\* loop catches it (it is a BaseException), so the task ends cancelled.
Cancelled(h) ==
    /\ Live(h) /\ tasks[h].cancel
    /\ tasks' = [tasks EXCEPT ![h] = Finished(@, "CancelledError")]
    /\ ListenerFrame

(* ------------------ the rule store: app.core.database ------------------ *)
\* add_mapping: INSERT issues the next id of the AUTOINCREMENT key.
add_mapping ==
    /\ next_id <= MaxAdds
    /\ db' = db \cup {next_id}
    /\ next_id' = next_id + 1
    /\ UNCHANGED <<tasks, next_task, supvars, streamvars>>

\* remove_mapping(mapping_id) of an existing row
remove_mapping(r) ==
    /\ r \in db
    /\ db' = db \ {r}
    /\ UNCHANGED <<next_id, tasks, next_task, supvars, streamvars>>

(* ------------- the supervisor: task_manager.manage_listeners ----------- *)
\* set(running_tasks.keys())
Keys(reg) == {r \in Rules : reg[r] # NoHandle}

\* The orders a for loop may visit the elements of a set in.
Orders(S) == {f \in [1..Cardinality(S) -> S] :
                \A i, j \in 1..Cardinality(S) : f[i] = f[j] => i = j}

\* A finished task t that neither the registry nor the supervisor refers to
\* any more: the response it last saw is gone with its connection. What is
\* kept of it is the rule it served and whether it had been cancelled.
Dropped(t) == [Unused EXCEPT !.st = "done", !.rule = t.rule, !.cancel = t.cancel]

\* The tasks tks once the last references to the finished ones among the
\* handles hs are given up.
Release(tks, hs) ==
    [h \in Handles |-> IF h \in hs /\ tks[h].st = "done" THEN Dropped(tks[h])
                       ELSE tks[h]]

\* Variant: finished tasks are never noticed.
cleanup_failed_tasks_None(reg, tks) == {}

\* Variant: only tasks that ended with an exception count as failed.
cleanup_failed_tasks_OnlyRaised(reg, tks) ==
    {r \in 1..MaxRules : reg[r] # 0 /\ tks[reg[r]].st = "done"
                                   /\ tks[reg[r]].out # "returned"}

\* _cleanup_failed_tasks: the ids whose registered task is done
cleanup_failed_tasks(reg, tks) == {r \in Keys(reg) : tks[reg[r]].st = "done"}

\* Variant: every finished task is reported as failed.
log_task_failure_Failed(t) == "has failed"

\* _log_task_failure: the warning logged for a finished task, by what
\* task.exception() gives: the exception the task ended with, None for a
\* task that returned, and a raised CancelledError for a cancelled one.
log_task_failure(t) ==
    IF t.out = "CancelledError" THEN "CancelledError"
    ELSE IF t.out = "returned" THEN "completed unexpectedly"
    ELSE "has failed"

\* _log_task_failure: task.exception() raises CancelledError for a cancelled
\* task, and except Exception does not catch it.
log_task_failure_raises(t) == log_task_failure(t) = "CancelledError"

\* Variant: the test "mapping_id not in running_tasks" is missing.
ToStart_Unguarded(mappings, reg) == mappings

\* The mappings _start_new_listeners starts a listener for.
ToStart(mappings, reg) == {r \in mappings : reg[r] = NoHandle}

\* Number of elements of S below r: the position of row r among the rows to
\* start, which the SELECT returns in rowid order.
Rank(S, r) == Cardinality({x \in S : x < r})

\* _start_new_listeners: the registry after it; first is the next fresh handle
start_new_listeners_reg(mappings, reg, first) ==
    [r \in Rules |-> IF r \in ToStart(mappings, reg)
                     THEN first + Rank(ToStart(mappings, reg), r)
                     ELSE reg[r]]

\* _start_new_listeners: the tasks after it
start_new_listeners_tasks(mappings, reg, tks, first) ==
    [h \in Handles |->
        IF \E r \in ToStart(mappings, reg) :
              h = first + Rank(ToStart(mappings, reg), r)
        THEN create_task(CHOOSE r \in ToStart(mappings, reg) :
                            h = first + Rank(ToStart(mappings, reg), r))
        ELSE tks[h]]

\* Variant: the except asyncio.CancelledError clause is missing.
await_task_Uncaught(t) ==
    IF t.out = "returned" THEN "passes" ELSE "Error in management loop"

\* try: await task / except asyncio.CancelledError, on a finished task t:
\* the await returns, or raises CancelledError, which is caught and logged at
\* debug level; any other exception of the task leaves the loop and is logged
\* by the tick's except Exception.
await_task(t) ==
    IF t.out = "returned" THEN "passes"
    ELSE IF t.out = "CancelledError" THEN "successfully cancelled"
    ELSE "Error in management loop"

\* One iteration of the loop of _stop_deleted_listeners passes without
\* suspending and without an exception leaving it: the id is not registered,
\* or its task is already done with a return value, or cancelled (except
\* asyncio.CancelledError).
PassesStop(reg, tks, r) ==
    \/ reg[r] = NoHandle
    \/ /\ tks[reg[r]].st = "done"
       /\ await_task(tks[reg[r]]) # "Error in management loop"

\* Index in todo of the first id whose iteration does not pass, 0 if none.
FirstHeld(reg, tks, todo) ==
    LET held == {i \in 1..Len(todo) : ~PassesStop(reg, tks, todo[i])}
    IN IF held = {} THEN 0 ELSE CHOOSE i \in held : \A j \in held : i <= j

\* Variant: the task is cancelled and awaited but its entry is not popped.
stop_deleted_listeners_NoPop(reg, tks, todo) ==
    LET live == {i \in 1..Len(todo) :
                   reg[todo[i]] # 0 /\ tks[reg[todo[i]]].st # "done"}
        k == IF live = {} THEN 0 ELSE CHOOSE i \in live : \A j \in live : i <= j
    IN [reg |-> reg,
        tasks |-> [x \in 1..MaxTasks |->
                     IF k # 0 /\ x = reg[todo[k]]
                     THEN [tks[x] EXCEPT !.cancel = TRUE] ELSE tks[x]],
        awaiting |-> IF k # 0 THEN reg[todo[k]] ELSE 0,
        stale |-> IF k # 0 THEN SubSeq(todo, k + 1, Len(todo)) ELSE <<>>,
        pc |-> IF k # 0 THEN "await" ELSE "sleep"]

\* _stop_deleted_listeners over the ids todo, run up to its next suspension
\* point: every registered id visited is popped and cancel() is called on its
\* task (without effect on a task that is done); the loop stops at the first
\* task that is not done (await suspends) or that is done with an exception
\* (await raises it to the tick's except Exception, and the tick goes to its
\* sleep).
stop_deleted_listeners(reg, tks, todo) ==
    LET k == FirstHeld(reg, tks, todo)
        n == IF k = 0 THEN Len(todo) ELSE k
        visited == {todo[i] : i \in 1..n}
        popped == {reg[r] : r \in visited} \ {NoHandle}
        h == IF k = 0 THEN NoHandle ELSE reg[todo[k]]
        suspends == k # 0 /\ tks[h].st # "done"
        called == [x \in Handles |-> IF x \in popped
                                     THEN [tks[x] EXCEPT !.cancel = TRUE]
                                     ELSE tks[x]]
    IN [reg |-> [r \in Rules |-> IF r \in visited THEN NoHandle ELSE reg[r]],
        tasks |-> Release(called, popped),
        awaiting |-> IF suspends THEN h ELSE NoHandle,
        stale |-> IF suspends THEN SubSeq(todo, k + 1, Len(todo)) ELSE <<>>,
        pc |-> IF suspends THEN "await" ELSE "sleep"]

\* Variant: every registered id counts as stale.
StaleTaskIds_All(active_task_ids, current_mapping_ids) == active_task_ids

\* Variant: no registered id ever counts as stale.
StaleTaskIds_None(active_task_ids, current_mapping_ids) == {}

\* stale_task_ids = active_task_ids - current_mapping_ids
StaleTaskIds(active_task_ids, current_mapping_ids) ==
    active_task_ids \ current_mapping_ids

\* asyncio.sleep(30) is over: the next tick begins and calls list_mappings.
TickStart ==
    /\ pc = "sleep"
    /\ pc' = "fetch"
    /\ fetched' = "pending"
    /\ snapshot' = {}
    /\ UNCHANGED <<db, next_id, tasks, next_task, running_tasks, stale,
                   awaiting, rows, streamvars>>

\* list_mappings has connected and its SELECT has read the rows the table
\* holds now; it still awaits the closing of the cursor and of the
\* connection before it returns them, and the table may change meanwhile.
SelectRows ==
    /\ pc = "fetch" /\ fetched = "pending"
    /\ fetched' = "selected"
    /\ rows' = db
    /\ UNCHANGED <<db, next_id, tasks, next_task, running_tasks, pc, stale,
                   awaiting, snapshot, streamvars>>

\* Variant: finished tasks are popped before list_mappings is awaited.
FetchFails_AfterCleanup ==
    /\ pc = "fetch"
    /\ fetched' = "failed"
    /\ rows' = {}
    /\ pc' = "sleep"
    /\ running_tasks' = [r \in Rules |->
          IF running_tasks[r] # NoHandle /\ tasks[running_tasks[r]].st = "done"
          THEN NoHandle ELSE running_tasks[r]]
    /\ UNCHANGED <<db, next_id, tasks, next_task, stale, awaiting, snapshot,
                   streamvars>>

\* Variant: the exception of list_mappings is not caught at the tick boundary.
FetchFails_Uncaught ==
    /\ pc = "fetch"
    /\ fetched' = "failed"
    /\ rows' = {}
    /\ pc' = "crashed"
    /\ UNCHANGED <<db, next_id, tasks, next_task, running_tasks, stale,
                   awaiting, snapshot, streamvars>>

\* list_mappings raises, before or after its SELECT: except Exception logs
\* it, then asyncio.sleep(30).
FetchFails ==
    /\ pc = "fetch"
    /\ fetched' = "failed"
    /\ rows' = {}
    /\ pc' = "sleep"
    /\ UNCHANGED <<db, next_id, tasks, next_task, running_tasks, stale,
                   awaiting, snapshot, streamvars>>

\* Variant: a finished task is logged but stays in the registry.
cleanup_reg_Keep(reg, tks) == reg

\* _cleanup_failed_tasks: the ids it pops. It visits the entries in the order
\* of the dict, the order the tasks were registered in, and pops each one that
\* is done after logging it; when _log_task_failure raises on a cancelled
\* task the loop ends there, with the finished tasks before it popped.
cleanup_popped(reg, tks) ==
    LET failed == cleanup_failed_tasks(reg, tks)
        raising == {r \in failed : log_task_failure_raises(tks[reg[r]])}
    IN {r \in failed : \A b \in raising : reg[r] < reg[b]}

\* The registry after _cleanup_failed_tasks
cleanup_reg(reg, tks) ==
    [r \in Rules |-> IF r \in cleanup_popped(reg, tks) THEN NoHandle
                     ELSE reg[r]]

\* list_mappings returns the rows its SELECT read: cleanup, start and the
\* stop loop up to its first suspension run without yielding to the event
\* loop. Listener tasks are created while fresh handles are left. A
\* CancelledError raised by the cleanup leaves manage_listeners.
FetchOk(order) ==
    /\ pc = "fetch" /\ fetched = "selected"
    /\ LET mappings == rows
           active_task_ids == Keys(running_tasks)
           failed == cleanup_failed_tasks(running_tasks, tasks)
           reg1 == cleanup_reg(running_tasks, tasks)
           tks1 == Release(tasks, {running_tasks[r] :
                                     r \in cleanup_popped(running_tasks, tasks)})
           n == Cardinality(ToStart(mappings, reg1))
           reg2 == start_new_listeners_reg(mappings, reg1, next_task)
           tks2 == start_new_listeners_tasks(mappings, reg1, tks1, next_task)
           stale_task_ids == StaleTaskIds(active_task_ids, mappings)
       IN /\ order \in Orders(stale_task_ids)
          /\ next_task + n <= MaxTasks + 1
          /\ fetched' = "ok"
          /\ rows' = {}
          /\ snapshot' = mappings
          /\ IF \E r \in failed : log_task_failure_raises(tasks[running_tasks[r]])
             THEN /\ pc' = "crashed"
                  /\ running_tasks' = reg1
                  /\ tasks' = tks1
                  /\ UNCHANGED <<next_task, stale, awaiting>>
             ELSE LET s == stop_deleted_listeners(reg2, tks2, order)
                  IN /\ running_tasks' = s.reg
                     /\ tasks' = s.tasks
                     /\ awaiting' = s.awaiting
                     /\ stale' = s.stale
                     /\ pc' = s.pc
                     /\ next_task' = next_task + n
    /\ UNCHANGED <<db, next_id, streamvars>>

\* Variant: the task is cancelled but not awaited.
AwaitReturns_NoWait ==
    /\ pc = "await"
    /\ running_tasks' = [r \in 1..MaxRules |->
          IF \E i \in 1..Len(stale) : stale[i] = r THEN 0 ELSE running_tasks[r]]
    /\ tasks' = [h \in 1..MaxTasks |->
          IF \E i \in 1..Len(stale) : running_tasks[stale[i]] = h
          THEN [tasks[h] EXCEPT !.cancel = TRUE] ELSE tasks[h]]
    /\ awaiting' = 0
    /\ stale' = <<>>
    /\ pc' = "sleep"
    /\ UNCHANGED <<db, next_id, next_task, snapshot, fetched, rows, streamvars>>

\* The awaited task is done: await task ends, and the stop loop goes on to
\* its next suspension point (a CancelledError is caught and logged at debug
\* level; any other exception ends the tick in except Exception).
AwaitReturns ==
    /\ pc = "await"
    /\ tasks[awaiting].st = "done"
    /\ LET todo == IF await_task(tasks[awaiting]) # "Error in management loop"
                   THEN stale ELSE <<>>
           s == stop_deleted_listeners(running_tasks,
                                       Release(tasks, {awaiting}), todo)
       IN /\ running_tasks' = s.reg
          /\ tasks' = s.tasks
          /\ awaiting' = s.awaiting
          /\ stale' = s.stale
          /\ pc' = s.pc
    /\ UNCHANGED <<db, next_id, next_task, snapshot, fetched, rows, streamvars>>

(* ---------------------------- specification --------------------------- *)
MainInit ==
    /\ db = {}
    /\ next_id = 1
    /\ running_tasks = [r \in Rules |-> NoHandle]
    /\ tasks = [h \in Handles |-> Unused]
    /\ next_task = 1
    /\ pc = "fetch"
    /\ stale = <<>>
    /\ awaiting = NoHandle
    /\ snapshot = {}
    /\ fetched = "pending"
    /\ rows = {}

\* No stream is being decoded on its own.
StreamIdle ==
    /\ lines = <<>>
    /\ idx = 0
    /\ dispatched = <<>>
    /\ posts = <<>>
    /\ webhook_url = "ok"
    /\ sst = "idle"

Init == MainInit /\ StreamIdle

\* A step of the supervisor or of a listener
\* The lines a listener is sent and the webhooks of its row: one line and one
\* webhook for every outcome of ProcessLine over LineAlphabet and Webhooks,
\* since a listener's step depends on the two through that outcome alone.
ReadInputs ==
    {CHOOSE in \in LineAlphabet \X Webhooks : ProcessLine(in[1], in[2]) = go :
       go \in {ProcessLine(line, webhook) :
                 line \in LineAlphabet, webhook \in Webhooks}}

Run ==
    \/ TickStart
    \/ SelectRows
    \/ FetchFails
    \/ \E order \in UNION {Orders(S) : S \in SUBSET Rules} : FetchOk(order)
    \/ AwaitReturns
    \/ \E h \in Handles, s \in Statuses : Respond(h, s)
    \/ \E h \in Handles, d \in TryDurations : ConnectFails(h, d)
    \/ \E h \in Handles : ClientRaises(h)
    \/ \E h \in Handles : Unexpected(h)
    \/ \E h \in Handles : Sleep5Over(h)
    \/ \E h \in Handles, in \in ReadInputs :
          \E d \in IF ProcessLine(in[1], in[2]) = "dispatch_fails"
                    THEN TryDurations ELSE {0} : ReadLine(h, in[1], in[2], d)
    \/ \E h \in Handles, o \in PostOutcomes, d \in TryDurations :
          PostReturns(h, o, d)
    \/ \E h \in Handles : EndOfStream(h)
    \/ \E h \in Handles, d \in TryDurations : ReadFails(h, d)
    \/ \E h \in Handles, start \in TryStarts : Retry(h, start)
    \/ \E h \in Handles : Cancelled(h)

Next ==
    \/ add_mapping
    \/ \E r \in Rules : remove_mapping(r)
    \/ Run

Spec == Init /\ [][Next]_vars

\* The event loop runs every task that is ready: a task with a pending
\* CancelledError is resumed, and the supervisor is resumed once the task it
\* awaits is done.
FairSpec ==
    /\ Spec
    /\ WF_vars(AwaitReturns)
    /\ \A h \in Handles : WF_vars(Cancelled(h))

\* list_mappings moves on: it reads the rows, returns them or raises.
Fetch ==
    \/ SelectRows
    \/ FetchFails
    \/ \E order \in UNION {Orders(S) : S \in SUBSET Rules} : FetchOk(order)

\* Besides, asyncio.sleep(30) ends and the store answers list_mappings.
LoopSpec ==
    /\ FairSpec
    /\ WF_vars(TickStart)
    /\ WF_vars(Fetch)

(* ------------- the loop the entry point runs: main.manage_listeners ---- *)
\* main.py, step 1: the rows whose id is not in active_task_ids, the keys the
\* registry had when the tick began.
main_ToStart(mappings, active_task_ids) == mappings \ active_task_ids

\* main.manage_listeners after list_mappings has returned the rows: a
\* listener is created for every row whose id was not registered, then every
\* registered id that is not among the rows is popped, its task cancelled and
\* awaited, up to the first suspension. main.py has its own running_tasks and
\* its own listen_to_ntfy, of the same control flow as app.ntfy's; no step
\* looks at task.done().
main_manage_listeners(order) ==
    /\ pc = "fetch" /\ fetched = "selected"
    /\ LET mappings == rows
           current_mapping_ids == mappings
           active_task_ids == Keys(running_tasks)
           new == main_ToStart(mappings, active_task_ids)
           n == Cardinality(new)
           reg2 == [r \in Rules |-> IF r \in new THEN next_task + Rank(new, r)
                                    ELSE running_tasks[r]]
           tks2 == [h \in Handles |->
                      IF \E r \in new : h = next_task + Rank(new, r)
                      THEN create_task(CHOOSE r \in new :
                                          h = next_task + Rank(new, r))
                      ELSE tasks[h]]
           stale_task_ids == active_task_ids \ current_mapping_ids
           s == stop_deleted_listeners(reg2, tks2, order)
       IN /\ order \in Orders(stale_task_ids)
          /\ next_task + n <= MaxTasks + 1
          /\ fetched' = "ok"
          /\ rows' = {}
          /\ snapshot' = mappings
          /\ running_tasks' = s.reg
          /\ tasks' = s.tasks
          /\ awaiting' = s.awaiting
          /\ stale' = s.stale
          /\ pc' = s.pc
          /\ next_task' = next_task + n
    /\ UNCHANGED <<db, next_id, streamvars>>

\* session.post raises while it encodes the payload of main.post_to_discord,
\* which takes title and message as they are.
main_EncodeRaises(data) ==
    \/ Unencodable(data.title_type, data.title)
    \/ Unencodable(data.message_type, data.message)
    \/ data.topic_type = "str" /\ data.topic = LoneSurrogate

\* main.py's decode loop on a received line, up to its first suspension
\* point. Its own post_to_discord does nothing that raises before
\* session.post.
main_ProcessLine(line, webhook) ==
    IF IsBlank(line) THEN "continue"
    ELSE LET data == json_loads(line) IN
         IF data.type = "JSONDecodeError" THEN "continue"
         ELSE IF data.type # "dict" THEN "raise"
         ELSE IF data.event # "message" THEN "continue"
         ELSE IF webhook = "InvalidURL" THEN "dispatch_raises"
         ELSE IF main_EncodeRaises(data) THEN "dispatch_raises"
         ELSE IF webhook = "UnsupportedProtocol" THEN "dispatch_fails"
         ELSE "dispatch"

\* main.listen_to_ntfy: response.aiter_lines() yields a line.
main_ReadLine(h, line, webhook, d) ==
    /\ Runs(h) /\ tasks[h].st = "streaming"
    /\ LET go == main_ProcessLine(line, webhook) IN
       tasks' = [tasks EXCEPT ![h] =
         CASE go = "continue" -> @
           [] go = "dispatch" -> [@ EXCEPT !.st = "dispatching"]
           [] go = "dispatch_fails" -> on_exception(@, "RequestError", d)
           [] OTHER -> [@ EXCEPT !.st = "sleep5"]]
    /\ ListenerFrame

\* The process main.main runs: init_db, then main.manage_listeners.
\* The same for the decode loop of main.py
main_ReadInputs ==
    {CHOOSE in \in LineAlphabet \X Webhooks :
        main_ProcessLine(in[1], in[2]) = go :
       go \in {main_ProcessLine(line, webhook) :
                 line \in LineAlphabet, webhook \in Webhooks}}

MainNext ==
    \/ add_mapping
    \/ \E r \in Rules : remove_mapping(r)
    \/ TickStart
    \/ SelectRows
    \/ FetchFails
    \/ \E order \in UNION {Orders(S) : S \in SUBSET Rules} :
          main_manage_listeners(order)
    \/ AwaitReturns
    \/ \E h \in Handles, s \in Statuses : Respond(h, s)
    \/ \E h \in Handles, d \in TryDurations : ConnectFails(h, d)
    \/ \E h \in Handles : ClientRaises(h)
    \/ \E h \in Handles : Unexpected(h)
    \/ \E h \in Handles : Sleep5Over(h)
    \/ \E h \in Handles, in \in main_ReadInputs :
          \E d \in IF main_ProcessLine(in[1], in[2]) = "dispatch_fails"
                    THEN TryDurations ELSE {0} :
             main_ReadLine(h, in[1], in[2], d)
    \/ \E h \in Handles, o \in PostOutcomes, d \in TryDurations :
          PostReturns(h, o, d)
    \/ \E h \in Handles : EndOfStream(h)
    \/ \E h \in Handles, d \in TryDurations : ReadFails(h, d)
    \/ \E h \in Handles, start \in TryStarts : Retry(h, start)
    \/ \E h \in Handles : Cancelled(h)

MainSpec == Init /\ [][MainNext]_vars

\* The supervisor sleeps after the tick that started the listeners of
\* MaxRules rules, the first rows of the table; none has run yet, and all the
\* rows have been removed since.
StopInit ==
    /\ db = {}
    /\ next_id = MaxRules + 1
    /\ running_tasks = [r \in Rules |-> r]
    /\ tasks = [h \in Handles |-> IF h \in Rules THEN create_task(h) ELSE Unused]
    /\ next_task = MaxRules + 1
    /\ pc = "sleep"
    /\ stale = <<>>
    /\ awaiting = NoHandle
    /\ snapshot = Rules
    /\ fetched = "ok"
    /\ rows = {}
    /\ StreamIdle

\* The store is left alone from there on.
StopSpec == StopInit /\ [][Run]_vars

(* ------------- the decode loop alone: _process_ntfy_stream ------------- *)
\* All sequences over S of length at most n
BoundedSeq(S, n) == UNION {[1..k -> S] : k \in 0..n}

\* A stream of at most MaxLen lines is about to be decoded, for a row with
\* some webhook URL.
StreamInit ==
    /\ MainInit
    /\ lines \in BoundedSeq(LineAlphabet, MaxLen)
    /\ idx = 0
    /\ dispatched = <<>>
    /\ posts = <<>>
    /\ webhook_url \in Webhooks
    /\ sst = "reading"

\* Variant: the newest record is put in front of the ones dispatched before.
NextLine_Prepend ==
    /\ sst = "reading" /\ idx < Len(lines)
    /\ idx' = idx + 1
    /\ dispatched' = IF ProcessLine(lines[idx + 1], webhook_url)
                          \in {"dispatch", "dispatch_raises", "dispatch_fails"}
                     THEN <<json_loads(lines[idx + 1])>> \o dispatched
                     ELSE dispatched
    /\ sst' = CASE ProcessLine(lines[idx + 1], webhook_url) = "continue" -> "reading"
                [] ProcessLine(lines[idx + 1], webhook_url) = "dispatch" -> "dispatching"
                [] OTHER -> "raised"
    /\ UNCHANGED <<lines, posts, webhook_url, mainvars>>

\* async for yields the next line; the loop body runs up to its next
\* suspension point. A message record is handed to post_to_discord.
NextLine ==
    /\ sst = "reading" /\ idx < Len(lines)
    /\ LET line == lines[idx + 1]
           go == ProcessLine(line, webhook_url)
       IN /\ idx' = idx + 1
          /\ dispatched' = IF go \in {"dispatch", "dispatch_raises",
                                      "dispatch_fails"}
                           THEN Append(dispatched, json_loads(line))
                           ELSE dispatched
          /\ sst' = CASE go = "continue" -> "reading"
                      [] go = "dispatch" -> "dispatching"
                      [] OTHER -> "raised"
    /\ UNCHANGED <<lines, posts, webhook_url, mainvars>>

\* session.post ends with outcome o: post_to_discord returns or raises.
PostDone(o) ==
    /\ sst = "dispatching"
    /\ posts' = Append(posts, o)
    /\ sst' = IF post_to_discord(o) = "returned" THEN "reading" ELSE "raised"
    /\ UNCHANGED <<lines, idx, dispatched, webhook_url, mainvars>>

\* The line iterator is exhausted: _process_ntfy_stream returns.
StreamEnds ==
    /\ sst = "reading" /\ idx = Len(lines)
    /\ sst' = "returned"
    /\ UNCHANGED <<lines, idx, dispatched, posts, webhook_url, mainvars>>

\* After the lines it yielded, the read of the stream raises (httpx.ReadError
\* on a connection reset): the exception leaves _process_ntfy_stream.
StreamBreaks ==
    /\ sst = "reading" /\ idx = Len(lines)
    /\ sst' = "raised"
    /\ UNCHANGED <<lines, idx, dispatched, posts, webhook_url, mainvars>>

StreamNext ==
    \/ NextLine
    \/ \E o \in PostOutcomes : PostDone(o)
    \/ StreamEnds
    \/ StreamBreaks

StreamSpec == StreamInit /\ [][StreamNext]_vars

(* ------------------------------- claims -------------------------------- *)
\* The unfinished listener tasks created for rule r
LiveTasksOf(r) == {h \in Handles : tasks[h].rule = r /\ Live(h)}

\* C1: at every moment there is at most one not-yet-finished listener task
\* per rule id, however many ticks see the rule while its listener is still
\* running.
C1_OneListenerPerRule == \A r \in Rules : Cardinality(LiveTasksOf(r)) <= 1

\* A tick has just run with rule r in its snapshot while the listener started
\* for r by an earlier tick is still in its first connection attempt (rule r2
\* got its listener from a later tick than r did), and r has one listener.
C1_Witness ==
    /\ pc = "sleep" /\ fetched = "ok"
    /\ \E r, r2 \in snapshot :
          /\ r2 < r
          /\ running_tasks[r] # NoHandle
          /\ running_tasks[r2] > running_tasks[r]
          /\ tasks[running_tasks[r]].st = "connecting"
          /\ tasks[running_tasks[r]].tries = 1
          /\ LiveTasksOf(r) = {running_tasks[r]}

\* C2: a tick whose rows are the registered ids minus one rule r, with every
\* registered listener still running, requests cancellation of r's listener
\* and of no other, removes only r from the registry and leaves every other
\* entry on the same task handle; the rest of that tick (the return of the
\* await) changes no entry and cancels nothing.
C2_StopsOnlyRemovedRule ==
    [][/\ \A r \in Rules :
            ( /\ pc = "fetch" /\ fetched' = "ok"
              /\ r \notin rows
              /\ Keys(running_tasks) = rows \cup {r}
              /\ \A x \in Keys(running_tasks) : Live(running_tasks[x]) )
            => /\ running_tasks' = [running_tasks EXCEPT ![r] = NoHandle]
               /\ tasks' = [tasks EXCEPT ![running_tasks[r]].cancel = TRUE]
               /\ awaiting' = running_tasks[r]
               /\ stale' = <<>>
               /\ pc' = "await"
       /\ (pc = "await" /\ stale = <<>> /\ pc' # "await")
            => /\ running_tasks' = running_tasks
               /\ \A h \in Handles : Live(h) => tasks'[h] = tasks[h]
               /\ pc' = "sleep"
      ]_vars

\* The tick has removed one rule's listener from the registry and awaits its
\* cancellation, while the listeners of the rules still in the store, all
\* created before the cancelled one, stay registered and streaming.
C2_Witness ==
    /\ pc = "await" /\ stale = <<>> /\ fetched = "ok"
    /\ tasks[awaiting].cancel /\ Live(awaiting)
    /\ snapshot # {}
    /\ Keys(running_tasks) = snapshot
    /\ \A x \in snapshot : /\ running_tasks[x] < awaiting
                           /\ tasks[running_tasks[x]].st = "streaming"

\* C3: the first tick with a successful fetch that finds a registered task
\* finished removes that task from the registry, and when its rule id is among
\* the rows it registers a newly created listener for the rule in the same
\* tick (and none when the rule is gone).
C3_FinishedTaskReplaced ==
    [][(pc = "fetch" /\ fetched' = "ok") =>
         \A r \in Rules :
            (running_tasks[r] # NoHandle /\ Done(running_tasks[r])) =>
               /\ running_tasks'[r] # running_tasks[r]
               /\ r \in rows =>
                    /\ running_tasks'[r] >= next_task
                    /\ running_tasks'[r] < next_task'
                    /\ tasks'[running_tasks'[r]] = create_task(r)
               /\ r \notin rows => running_tasks'[r] = NoHandle
      ]_vars

\* After a tick, rule r of the snapshot is registered with a listener that
\* has not run yet, and an earlier task of the same rule has finished and been
\* released.
C3_Witness ==
    /\ pc = "sleep" /\ fetched = "ok"
    /\ \E r \in snapshot, h0 \in Handles :
          /\ tasks[h0].rule = r /\ tasks[h0].st = "done"
          /\ running_tasks[r] > h0
          /\ tasks[running_tasks[r]] = create_task(r)

\* C4: a task whose connection was answered with a status in 400..499 has
\* returned normally: it is finished, without an exception, and so makes no
\* further connection attempt.
C4_ClientErrorReturns ==
    \A h \in Handles :
       (400 <= tasks[h].status /\ tasks[h].status <= 499) =>
          /\ tasks[h].st = "done"
          /\ tasks[h].out = "returned"

\* A listener got 404 on its connection and has returned.
C4_Witness ==
    \E h \in Handles :
       tasks[h].status = 404 /\ tasks[h].st = "done" /\ tasks[h].out = "returned"

\* C5 (as claimed): after a non-2xx answer outside 400..499 the invocation is
\* in its backoff delay, about to connect again (unless it was cancelled).
C5_ServerErrorRetried ==
    \A h \in Handles :
       ( /\ tasks[h].status # 0
         /\ ~(200 <= tasks[h].status /\ tasks[h].status <= 299)
         /\ ~(400 <= tasks[h].status /\ tasks[h].status <= 499) )
       => \/ tasks[h].st = "backoff"
          \/ tasks[h].out = "CancelledError"

\* C6 (as claimed): a connection that reached the streaming state resets the
\* invocation's backoff: after its drop the wait value is the base one again,
\* and since the ceiling is counted from that connection a try that had
\* connected never ends the invocation by give-up.
C6_BackoffResetOnConnect ==
    \A h \in Handles :
       (200 <= tasks[h].status /\ tasks[h].status <= 299) =>
          /\ tasks[h].st = "backoff" => tasks[h].value = 1
          /\ ~(tasks[h].st = "done" /\ tasks[h].out = "RequestError")

\* The record json.loads decodes from a line formed as a JSON object has the
\* event kind "message".
IsMessageLine(line) ==
    /\ ~IsBlank(line)
    /\ json_loads(line).type = "dict"
    /\ json_loads(line).event = "message"

\* The lines C7 speaks of: blank, unparseable, or a JSON object.
C7_Lines == LineAlphabet \ {L_NUM}

\* The records of the message lines of a sequence, in order
MessagesOf(ls) ==
    LET F[i \in 0..Len(ls)] ==
          IF i = 0 THEN <<>>
          ELSE IF IsMessageLine(ls[i]) THEN Append(F[i - 1], json_loads(ls[i]))
          ELSE F[i - 1]
    IN F[Len(ls)]

\* C7 (as claimed): for every sequence of blank, unparseable and JSON-object
\* lines, once _process_ntfy_stream is over every line was read and exactly
\* the records with event "message" were handed to the dispatcher, one
\* dispatch each, fields unchanged.
C7_AllMessagesDispatched ==
    ( /\ sst \in {"returned", "raised"}
      /\ \A i \in 1..Len(lines) : lines[i] \in C7_Lines )
    => /\ idx = Len(lines)
       /\ dispatched = MessagesOf(lines)

\* C8 (as claimed): however the post to the webhook ends, the listener that
\* was dispatching goes on reading its stream: it is streaming again.
C8_DispatchFailureContained ==
    [][\A h \in Handles :
          ( /\ tasks[h].st = "dispatching" /\ ~tasks[h].cancel
            /\ tasks'[h].st # "dispatching" )
          => tasks'[h].st = "streaming"
      ]_vars

\* C9: once the supervisor has requested the cancellation of a listener task,
\* in whichever state the listener is, the task finishes, the supervisor's
\* await returns and the tick reaches its sleep.
C9_CancellationCompletes ==
    /\ \A h \in Handles : (tasks[h].cancel /\ Live(h)) ~> Done(h)
    /\ (pc = "await") ~> (pc = "sleep")

\* The supervisor awaits a listener it has cancelled while that listener is
\* blocked on the read of its stream.
C9_Witness ==
    /\ pc = "await"
    /\ tasks[awaiting].cancel
    /\ tasks[awaiting].st = "streaming"

\* C10: when list_mappings raises, the tick ends with the registry as it was
\* (nothing started, removed or cancelled, finished tasks kept), and the
\* supervisor is in its sleep, from which the next tick starts.
C10_FetchFailureKeepsRegistry ==
    [][(pc = "fetch" /\ fetched' = "failed") =>
          /\ running_tasks' = running_tasks
          /\ tasks' = tasks
          /\ next_task' = next_task
          /\ pc' = "sleep"
      ]_vars

\* A tick whose fetch failed is over and a finished task is still registered.
C10_Witness ==
    /\ pc = "sleep" /\ fetched = "failed"
    /\ \E r \in Rules :
          running_tasks[r] # NoHandle /\ Done(running_tasks[r])

\* C11: the supervisor loop never stops: whatever the listeners' outcomes and
\* whatever is raised inside a tick, manage_listeners never ends, it reaches
\* its sleep again and again and starts another tick each time.
C11_LoopNeverStops ==
    /\ [](pc # "crashed")
    /\ []<>(pc = "sleep")
    /\ []<>(pc = "fetch")

\* A tick whose fetch raised has reached its sleep while a listener that ended
\* with an exception is still registered.
C11_Witness ==
    /\ pc = "sleep" /\ fetched = "failed"
    /\ \E r \in Rules :
          /\ running_tasks[r] # NoHandle
          /\ Done(running_tasks[r])
          /\ tasks[running_tasks[r]].out \in {"HTTPStatusError", "RequestError",
                                             "ConnectError", "Exception"}

\* C12 (as claimed): once a tick whose fetch succeeded has reached its sleep,
\* no rule id absent from that tick's snapshot has a registered or an
\* unfinished listener task, however many rules were removed at once and
\* whatever the listeners did while the supervisor awaited a cancellation.
C12_NoListenerForRemovedRule ==
    (pc = "sleep" /\ fetched = "ok") =>
       \A r \in Rules \ snapshot :
          /\ running_tasks[r] = NoHandle
          /\ LiveTasksOf(r) = {}

\* C13: a tick with a successful fetch that finds a registered task finished
\* while its rule id is absent from the rows removes the entry, creates no
\* listener for the rule and calls cancel() on no task of the rule; and a
\* rule that is neither in the table nor among rows already read never comes
\* back to either, so no later tick starts a listener for it.
C13_FinishedAndRemovedDropped ==
    [][/\ (pc = "fetch" /\ fetched' = "ok") =>
            \A r \in Rules \ rows :
               (running_tasks[r] # NoHandle /\ Done(running_tasks[r])) =>
                  /\ running_tasks'[r] = NoHandle
                  /\ ~tasks'[running_tasks[r]].cancel
                  /\ \A h \in Handles : tasks'[h].rule = r => tasks[h].rule = r
       /\ \A r \in Rules :
            (r < next_id /\ r \notin db /\ r \notin rows) =>
               /\ r \notin db' /\ r \notin rows'
               /\ running_tasks'[r] \in {running_tasks[r], NoHandle}
               /\ \A h \in Handles : tasks'[h].rule = r => tasks[h].rule = r
      ]_vars

\* After a tick, a rule absent from its snapshot is unregistered, has had a
\* listener, and every listener it had is finished without cancel() ever
\* having been called on it.
C13_Witness ==
    /\ pc = "sleep" /\ fetched = "ok"
    /\ \E r \in Rules \ snapshot :
          /\ running_tasks[r] = NoHandle
          /\ \E h \in Handles : tasks[h].rule = r
          /\ \A h \in Handles : tasks[h].rule = r =>
                                   (tasks[h].st = "done" /\ ~tasks[h].cancel)

\* C14: within one connection the records handed to the dispatcher are the
\* message records of the lines read so far, in the order of their lines, and
\* a line is read only when every dispatch made before it has returned.
C14_DispatchInOrder ==
    /\ [](dispatched = MessagesOf(SubSeq(lines, 1, idx)))
    /\ [][idx' # idx =>
            /\ idx' = idx + 1
            /\ sst = "reading"
            /\ Len(posts) = Len(dispatched)
            /\ \A i \in 1..Len(posts) : post_to_discord(posts[i]) = "returned"
         ]_vars

\* A stream came to its end after two different message records, with a line
\* between them that is no message, were dispatched one after the other.
C14_Witness ==
    /\ sst = "returned"
    /\ Len(lines) = 3 /\ ~IsMessageLine(lines[2])
    /\ Len(dispatched) = 2 /\ Len(posts) = 2
    /\ dispatched[1] # dispatched[2]
    /\ dispatched[1] = json_loads(lines[1])

\* C15 (as claimed): when the fixed delay that follows an unexpected error is
\* over, the error is handled like a transient one: the invocation goes on
\* to a further connection attempt instead of the task finishing.
C15_UnexpectedErrorRetried ==
    [][\A h \in Handles :
          ( /\ tasks[h].st = "sleep5" /\ ~tasks[h].cancel
            /\ tasks'[h].st # "sleep5" )
          => tasks'[h].st \in {"backoff", "connecting"}
      ]_vars

\* The exceptions the retry loop takes for transient failures
Transient == {"RequestError", "ConnectError"}

\* C16 (as claimed): once more than the ceiling has elapsed since the
\* invocation's first attempt, a transient failure is not retried: no
\* invocation is in a backoff sleep after a failure that came later than
\* MAX_TIME.
C16_NoRetryPastCeiling ==
    \A h \in Handles : tasks[h].st = "backoff" => tasks[h].wake <= MAX_TIME

\* C16 (amended): the ceiling is compared with the time elapsed when the
\* failed attempt began. A transient failure of an attempt that began at
\* MAX_TIME or later is not retried, the task ends with that failure; one of
\* an attempt that began earlier is retried. The first tick with a successful
\* fetch that finds the task finished and its rule among the rows registers a
\* new invocation for the rule, with a fresh backoff sequence and clock.
C16_GiveUpByAttemptStart ==
    /\ [](\A h \in Handles : tasks[h].st = "backoff" => tasks[h].elapsed < MAX_TIME)
    /\ [][\A h \in Handles :
            ( /\ Runs(h) /\ tasks[h].st \in {"connecting", "streaming", "dispatching"}
              /\ tasks'[h].st \in {"backoff", "done"}
              /\ tasks'[h].out \in Transient \cup {"none"}
              /\ ~tasks'[h].cancel )
            => /\ tasks[h].elapsed >= MAX_TIME =>
                    (tasks'[h].st = "done" /\ tasks'[h].out \in Transient)
               /\ tasks[h].elapsed < MAX_TIME => tasks'[h].st = "backoff"
         ]_vars
    /\ [][(pc = "fetch" /\ fetched' = "ok") =>
            \A r \in rows :
               ( /\ running_tasks[r] # NoHandle
                 /\ Done(running_tasks[r])
                 /\ tasks[running_tasks[r]].out \in Transient )
               => /\ running_tasks'[r] >= next_task
                  /\ tasks'[running_tasks'[r]].st = "connecting"
                  /\ tasks'[running_tasks'[r]].tries = 1
                  /\ tasks'[running_tasks'[r]].wait_n = 0
                  /\ tasks'[running_tasks'[r]].elapsed = 0
         ]_vars

\* An attempt that began at the ceiling or later had connected and then met a
\* transient failure: the invocation gave up, and its finished task is still
\* registered for the next tick to find.
C16_Witness ==
    \E r \in Rules :
       /\ running_tasks[r] # NoHandle
       /\ Done(running_tasks[r])
       /\ tasks[running_tasks[r]].out = "RequestError"
       /\ tasks[running_tasks[r]].status = 200

\* C17: a listener task the supervisor cancelled is never reported as a
\* failure. It is out of the registry from the moment cancel() is called, so
\* _cleanup_failed_tasks never sees it and logs no warning for it; and when
\* the await of it ends, the entry logged is the debug one and the loop over
\* the stale ids goes on to the next id, no exception reaching the tick's
\* error log.
C17_CancelledNotReported ==
    /\ [](\A r \in Rules :
            running_tasks[r] # NoHandle =>
               /\ ~tasks[running_tasks[r]].cancel
               /\ tasks[running_tasks[r]].out # "CancelledError")
    /\ [][(pc = "await" /\ <<pc, awaiting, stale>>' # <<pc, awaiting, stale>>) =>
            /\ tasks[awaiting].out = "CancelledError"
            /\ await_task(tasks[awaiting]) = "successfully cancelled"
            /\ stale # <<>> => running_tasks'[stale[1]] = NoHandle
         ]_vars

\* The listener the supervisor awaits has ended cancelled, and the listener
\* of another removed rule is still registered and running, waiting for the
\* loop to come to it.
C17_Witness ==
    /\ pc = "await"
    /\ Done(awaiting) /\ tasks[awaiting].out = "CancelledError"
    /\ stale # <<>>
    /\ running_tasks[stale[1]] # NoHandle
    /\ Live(running_tasks[stale[1]])

\* C18: the registry changes only in a step of the supervisor's tick (the
\* step that follows the fetch, or the one that follows an await), and every
\* step in which a listener moves on leaves it unchanged.
C18_RegistryOwnedBySupervisor ==
    /\ [][running_tasks' # running_tasks =>
            /\ pc \in {"fetch", "await"}
            /\ <<pc, awaiting, stale>>' # <<pc, awaiting, stale>>
         ]_vars
    /\ [][\A h \in Handles :
            ( /\ Live(h)
              /\ tasks'[h] # [tasks[h] EXCEPT !.cancel = tasks'[h].cancel] )
            => running_tasks' = running_tasks
         ]_vars

\* While the supervisor sleeps after a tick, the listener that tick left
\* registered has returned on its own and its entry is still in the registry.
C18_Witness ==
    /\ pc = "sleep" /\ fetched = "ok"
    /\ \E r \in snapshot :
          /\ running_tasks[r] # NoHandle
          /\ Done(running_tasks[r])
          /\ tasks[running_tasks[r]].out = "returned"

\* C19: listeners are isolated from each other: in a step in which the
\* listener of one rule moves on (connects, is answered, reads, dispatches,
\* fails, sleeps, gives up, ends) the task of every other listener, with its
\* session state and its connection, is as it was before; no listener
\* finishes because another one did something.
C19_ListenersIsolated ==
    [][\A h \in Handles :
          ( /\ Live(h)
            /\ tasks'[h] # [tasks[h] EXCEPT !.cancel = tasks'[h].cancel] )
          => \A h2 \in Handles \ {h} :
                Live(h2) => tasks'[h2] = tasks[h2]
      ]_vars

\* Two listeners are registered; one has ended with the error of a 5xx
\* answer, the other one is streaming.
C19_Witness ==
    \E r, r2 \in Rules :
       /\ r # r2
       /\ running_tasks[r] # NoHandle /\ running_tasks[r2] # NoHandle
       /\ Done(running_tasks[r])
       /\ tasks[running_tasks[r]].out = "HTTPStatusError"
       /\ tasks[running_tasks[r2]].st = "streaming"

\* C20 (as claimed): a non-blank line that is no well-formed record, be it
\* unparseable text or JSON that is no object, is dealt with inside the decode
\* loop: the step that reads it leaves the loop ready for the next line, no
\* exception leaves it.
C20_BadLineKeepsStream ==
    [][( /\ sst = "reading" /\ idx' = idx + 1
         /\ ~IsBlank(lines[idx + 1])
         /\ json_loads(lines[idx + 1]).type # "dict" )
       => sst' = "reading"
      ]_vars

\* C21: every tick with a successful fetch that finds the invocation of a
\* rule finished after a 4xx answer, the rule being among the rows, registers
\* a new invocation for the rule, and that invocation starts like the first
\* one did: at its first try, about to connect, nothing waited for and no
\* time counted. Nothing is kept from one invocation to the next.
C21_ClientErrorRestartedEachTick ==
    [][(pc = "fetch" /\ fetched' = "ok") =>
          \A r \in rows :
             ( /\ running_tasks[r] # NoHandle
               /\ Done(running_tasks[r])
               /\ is_client_error(tasks[running_tasks[r]].status) )
             => /\ running_tasks'[r] >= next_task
                /\ running_tasks'[r] < next_task'
                /\ tasks'[running_tasks'[r]].rule = r
                /\ tasks'[running_tasks'[r]].st = "connecting"
                /\ tasks'[running_tasks'[r]].tries = 1
                /\ tasks'[running_tasks'[r]].wait_n = 0
                /\ tasks'[running_tasks'[r]].elapsed = 0
                /\ tasks'[running_tasks'[r]].value = 0
                /\ ~tasks'[running_tasks'[r]].cancel
      ]_vars

\* The third invocation for one rule has been answered 4xx and has returned,
\* as registered as the two before it were, both replaced by earlier ticks.
C21_Witness ==
    \E r \in db :
       /\ running_tasks[r] = MaxTasks
       /\ Done(running_tasks[r])
       /\ is_client_error(tasks[running_tasks[r]].status)
       /\ \A h \in Handles : tasks[h].rule = r /\ tasks[h].st = "done"

\* C22 (as claimed): in the loop the entry point runs, a tick with a
\* successful fetch that finds a registered listener task finished while its
\* rule is among the rows takes that task out of the registry and registers
\* a newly created, unfinished listener for the rule.
C22_EntryPointRestartsFinished ==
    [][(pc = "fetch" /\ fetched' = "ok") =>
          \A r \in rows :
             (running_tasks[r] # NoHandle /\ Done(running_tasks[r])) =>
                /\ running_tasks'[r] \notin {NoHandle, running_tasks[r]}
                /\ tasks'[running_tasks'[r]].st \notin {"none", "done"}
      ]_vars

\* C23: the stop step moves on from a rule, to the next removed rule or to
\* the sleep, only when the task it cancelled is done; so the only task that
\* is cancelled and not yet finished is the one the supervisor is waiting
\* for.
C23_StopWaitsForCancelledTask ==
    /\ [](\A h \in Handles :
            (Live(h) /\ tasks[h].cancel) => (pc = "await" /\ awaiting = h))
    /\ [][(pc = "await" /\ <<pc, awaiting>>' # <<pc, awaiting>>) =>
            /\ Done(awaiting)
            /\ tasks'[awaiting].st = "done"
         ]_vars

\* The supervisor is held by a cancelled listener that has not yet left its
\* backoff sleep, while another removed rule waits for its turn, its listener
\* still registered.
C23_Witness ==
    /\ pc = "await"
    /\ tasks[awaiting].cancel /\ tasks[awaiting].st = "backoff"
    /\ stale # <<>>
    /\ running_tasks[stale[1]] # NoHandle

\* C24: when a tick whose fetch succeeded reaches its sleep without an
\* exception having left the stop loop (every task the loop awaited or found
\* finished was cancelled or had returned), the ids in the registry are
\* exactly the ids of the tick's snapshot.
C24_RegistryEqualsSnapshot ==
    [][( /\ pc \in {"fetch", "await"}
         /\ pc' = "sleep" /\ fetched' = "ok"
         /\ pc = "await" =>
               \A i \in 1..Len(stale) : PassesStop(running_tasks, tasks, stale[i]) )
       => Keys(running_tasks') = snapshot'
      ]_vars

\* A tick has ended with a rule of its snapshot registered and running, after
\* it cancelled and awaited the listener of a rule that is no longer there.
C24_Witness ==
    /\ pc = "sleep" /\ fetched = "ok"
    /\ snapshot # {}
    /\ Keys(running_tasks) = snapshot
    /\ \A r \in snapshot : Live(running_tasks[r])
    /\ \E h \in Handles :
          /\ tasks[h].st = "done" /\ tasks[h].cancel
          /\ tasks[h].rule \notin snapshot

\* C25: no task held in the registry has had cancel() called on it, the
\* entry being popped before the call; so the finished registered tasks the
\* cleanup step inspects are never cancelled ones, task.exception() does not
\* raise CancelledError there, and the supervisor loop is not ended by it.
C25_NoCancelledTaskRegistered ==
    /\ \A r \in Keys(running_tasks) : ~tasks[running_tasks[r]].cancel
    /\ \A r \in cleanup_failed_tasks(running_tasks, tasks) :
          ~log_task_failure_raises(tasks[running_tasks[r]])
    /\ pc # "crashed"

\* A listener whose cancellation is pending is out of the registry, while
\* the registry holds a task that ended with an exception, for the next
\* tick's cleanup to inspect.
C25_Witness ==
    /\ pc = "await"
    /\ Live(awaiting) /\ tasks[awaiting].cancel
    /\ \A r \in Rules : running_tasks[r] # awaiting
    /\ \E r \in Rules :
          /\ running_tasks[r] # NoHandle
          /\ Done(running_tasks[r])
          /\ tasks[running_tasks[r]].out \notin {"returned", "none"}

\* C26: an invocation whose established stream was closed cleanly has
\* returned and never runs again; while its task stays registered the rule has
\* no running listener; and the first tick with a successful fetch that finds
\* it, the rule being among the rows, logs it as 'completed unexpectedly',
\* removes it and registers a new, running listener for the rule.
C26_CleanCloseEndsInvocation ==
    /\ [](\A r \in Rules :
            ( /\ running_tasks[r] # NoHandle
              /\ Done(running_tasks[r])
              /\ tasks[running_tasks[r]].out = "returned"
              /\ IsSuccess(tasks[running_tasks[r]].status) )
            => LiveTasksOf(r) = {})
    /\ [][\A h \in Handles :
            (Done(h) /\ tasks[h].out = "returned" /\ IsSuccess(tasks[h].status))
            => tasks'[h].st = "done"
         ]_vars
    /\ [][(pc = "fetch" /\ fetched' = "ok") =>
            \A r \in rows :
               ( /\ running_tasks[r] # NoHandle
                 /\ Done(running_tasks[r])
                 /\ tasks[running_tasks[r]].out = "returned"
                 /\ IsSuccess(tasks[running_tasks[r]].status) )
               => /\ log_task_failure(tasks[running_tasks[r]])
                       = "completed unexpectedly"
                  /\ running_tasks'[r] \notin {NoHandle, running_tasks[r]}
                  /\ LiveTasksOf(r)' = {running_tasks'[r]}
         ]_vars

\* The stream of a registered listener has ended cleanly while the
\* supervisor sleeps: the task has returned, the rule is still in the store
\* and nothing listens for it.
C26_Witness ==
    /\ pc = "sleep"
    /\ \E r \in db :
          /\ running_tasks[r] # NoHandle
          /\ Done(running_tasks[r])
          /\ tasks[running_tasks[r]].out = "returned"
          /\ tasks[running_tasks[r]].status = 200
          /\ LiveTasksOf(r) = {}

====
